---------------------------- MODULE Spec2Model ----------------------------
(***************************************************************************)
(* Model of the FanRewardsNftMarket contract (src/lib.rs): an asset        *)
(* registry with per-asset royalty, an ownership transfer, a paid purchase *)
(* that splits the price between creator and seller, and a loyalty ledger. *)
(*                                                                         *)
(* The contract keeps all its state in the instance storage of the host.   *)
(* Every public function is one invocation: the handler runs to completion *)
(* on the storage, and the host keeps the writes of an invocation that     *)
(* returns Ok and discards the writes (and the sub-invocations) of one     *)
(* that returns Err or traps.                                              *)
(*                                                                         *)
(* Integer widths: the values TLC can compute with are 32 bit, so the      *)
(* 128-bit types are modelled by narrower ones that keep their relation    *)
(* (the unsigned maximum is twice the signed one plus one, and the signed  *)
(* maximum is far above 10000): I128_MAX = 2^29-1 and U128_MAX = 2^30-1.   *)
(***************************************************************************)
EXTENDS Integers, Sequences, FiniteSets, TLC

VARIABLES
    storage,    \* the contract's instance storage (DataKey -> value)
    payments,   \* the transfers the payment tokens have carried out
    calls,      \* how many invocations have committed
    minted,     \* the ids the successful mints have returned, in order
    supplied,   \* what the successful mint of each id was given
    credited,   \* the points awarded to, and the prices paid by, each principal
    last        \* the invocation whose result is being handed back, or Idle

vars == <<storage, payments, calls, minted, supplied, credited, last>>

---------------------------------------------------------------------------
(* Bounds of the model *)

MaxCalls == 3     \* invocations that commit, over a run
MaxMint == 2      \* assets minted, over a run

(* The inputs the invocations draw from *)

Addr == {"A", "B", "C"}
DefaultTokens == {"T1"}
OverrideTokens == {"T2"}

I128_MAX == 2^29 - 1
I128_MIN == -(2^29)
U128_MAX == 2^30 - 1

(* mint: the spec's example (creator C, owner A, 5%), a creator minting to
   itself without royalty, a full royalty, and a royalty above the maximum *)
MintInputs ==
    { [creator |-> "C", initial_owner |-> "A", royalty_bps |-> 500, uri |-> "ipfs://x"],
      [creator |-> "A", initial_owner |-> "A", royalty_bps |-> 0, uri |-> "ipfs://y"],
      [creator |-> "B", initial_owner |-> "C", royalty_bps |-> 10000, uri |-> "ipfs://y"],
      [creator |-> "C", initial_owner |-> "A", royalty_bps |-> 10001, uri |-> "ipfs://x"] }

Prices == {-1, 0, 15, 1000, 1019, I128_MAX}
Points == {0, 1, 7, U128_MAX}
TokenIds == 1..(MaxMint + 1)

(* Option<T>: None is the empty sequence, Some(v) the one-element one *)
None == <<>>
Some(v) == <<v>>

(* The addresses that authorized the invocation: nobody, or one signer *)
AuthSets == {{}} \cup {{a} : a \in Addr}

---------------------------------------------------------------------------
(* Storage: one partial map for each DataKey variant *)

EmptyMap == [x \in {} |-> 0]

Put(f, k, v) == [x \in (DOMAIN f) \cup {k} |-> IF x = k THEN v ELSE f[x]]

Get(f, k) == IF k \in DOMAIN f THEN Some(f[k]) ELSE None

EmptyStorage ==
    [NextId |-> None, DefaultPayToken |-> None, Owner |-> EmptyMap,
     Creator |-> EmptyMap, RoyaltyBps |-> EmptyMap, Uri |-> EmptyMap,
     FanPoints |-> EmptyMap]

(* A frame is the state of one running invocation: the storage as written
   so far, the events so far (storage writes and cross-contract calls, in
   order), the result, and the returned value. *)
Frame(st) == [st |-> st, ev |-> <<>>, res |-> "Ok", ret |-> 0]

Err(fr, e) == [fr EXCEPT !.res = e]

(* An abrupt failure: require_auth failing, or a failing cross-contract call *)
Trap(fr) == [fr EXCEPT !.res = "Trap"]

SetEvent(key, id, addr) == [kind |-> "set", key |-> key, id |-> id, addr |-> addr]

(* A variant of require_auth that lets every invocation through *)
require_auth_skipped(auth, principal) == TRUE

require_auth(auth, principal) == principal \in auth

---------------------------------------------------------------------------
(* Checked arithmetic of the fixed-width integers *)

Abs(x) == IF x < 0 THEN -x ELSE x

(* A variant of checked_add_u128 that wraps around instead of failing *)
wrapping_add_u128(a, b) == Some((a + b) % (U128_MAX + 1))

checked_add_u128(a, b) == IF a + b > U128_MAX THEN None ELSE Some(a + b)

checked_sub_i128(a, b) ==
    IF a - b > I128_MAX \/ a - b < I128_MIN THEN None ELSE Some(a - b)

(* The product is formed only when it fits: |a|*|b| <= limit iff
   |a| <= limit \div |b| *)
checked_mul_i128(a, b) ==
    IF a = 0 \/ b = 0 THEN Some(0)
    ELSE LET neg == (a < 0) # (b < 0)
             limit == IF neg THEN I128_MAX + 1 ELSE I128_MAX
         IN IF Abs(a) > limit \div Abs(b) THEN None ELSE Some(a * b)

(* A variant of checked_div_i128 that rounds to the nearest integer *)
checked_div_i128_nearest(a, c) ==
    IF c = 0 \/ (a = I128_MIN /\ c = -1) THEN None
    ELSE LET q == (2 * Abs(a) + Abs(c)) \div (2 * Abs(c))
         IN Some(IF (a < 0) # (c < 0) THEN -q ELSE q)

(* Rust's integer division truncates toward zero *)
checked_div_i128(a, c) ==
    IF c = 0 \/ (a = I128_MIN /\ c = -1) THEN None
    ELSE LET q == Abs(a) \div Abs(c)
         IN Some(IF (a < 0) # (c < 0) THEN -q ELSE q)

(* A variant of safe_mul_div that rounds the quotient up *)
safe_mul_div_ceil(a, b, c) ==
    IF c = 0 THEN None
    ELSE LET prod == checked_mul_i128(a, b)
         IN IF prod = None THEN None
            ELSE LET q == checked_div_i128(prod[1], c)
                 IN IF q # None /\ q[1] * c # prod[1] THEN Some(q[1] + 1) ELSE q

safe_mul_div(a, b, c) ==
    IF c = 0 THEN None
    ELSE LET prod == checked_mul_i128(a, b)
         IN IF prod = None THEN None ELSE checked_div_i128(prod[1], c)

---------------------------------------------------------------------------
(* Internal helpers *)

(* A variant of next_id that returns the next id without storing it *)
next_id_unsaved(fr) ==
    LET current == IF fr.st.NextId = None THEN 0 ELSE fr.st.NextId[1]
        next == checked_add_u128(current, 1)
    IN IF next = None THEN Err(fr, "Overflow") ELSE [fr EXCEPT !.ret = next[1]]

next_id(fr) ==
    LET current == IF fr.st.NextId = None THEN 0 ELSE fr.st.NextId[1]
        next == checked_add_u128(current, 1)
    IN IF next = None THEN Err(fr, "Overflow")
       ELSE [fr EXCEPT !.st.NextId = next,
                       !.ev = Append(@, SetEvent("NextId", 0, "")),
                       !.ret = next[1]]

(* A variant of set_owner that makes the new owner the creator as well *)
set_owner_and_creator(fr, id, owner) ==
    [fr EXCEPT !.st.Owner = Put(@, id, owner),
               !.st.Creator = Put(@, id, owner),
               !.ev = Append(@, SetEvent("Owner", id, ""))]

set_owner(fr, id, owner) ==
    [fr EXCEPT !.st.Owner = Put(@, id, owner),
               !.ev = Append(@, SetEvent("Owner", id, ""))]

get_owner(st, id) == Get(st.Owner, id)

set_creator(fr, id, creator) ==
    [fr EXCEPT !.st.Creator = Put(@, id, creator),
               !.ev = Append(@, SetEvent("Creator", id, ""))]

get_creator(st, id) == Get(st.Creator, id)

set_royalty_bps(fr, id, bps) ==
    [fr EXCEPT !.st.RoyaltyBps = Put(@, id, bps),
               !.ev = Append(@, SetEvent("RoyaltyBps", id, ""))]

get_royalty_bps(st, id) == Get(st.RoyaltyBps, id)

(* A variant of set_uri that writes nothing *)
set_uri_skipped(fr, id, uri) == fr

set_uri(fr, id, uri) ==
    [fr EXCEPT !.st.Uri = Put(@, id, uri),
               !.ev = Append(@, SetEvent("Uri", id, ""))]

get_uri(st, id) == Get(st.Uri, id)

(* A variant of add_fan_points that stores the points instead of the sum *)
add_fan_points_overwrite(fr, fan, points) ==
    IF points = 0 THEN fr
    ELSE [fr EXCEPT !.st.FanPoints = Put(@, fan, points),
                    !.ev = Append(@, SetEvent("FanPoints", 0, fan))]

add_fan_points(fr, fan, points) ==
    IF points = 0 THEN fr
    ELSE LET got == Get(fr.st.FanPoints, fan)
             current == IF got = None THEN 0 ELSE got[1]
             new_total == checked_add_u128(current, points)
         IN IF new_total = None THEN Err(fr, "Overflow")
            ELSE [fr EXCEPT !.st.FanPoints = Put(@, fan, new_total[1]),
                            !.ev = Append(@, SetEvent("FanPoints", 0, fan))]

(* The cross-contract call to the token's xfer_from(from, to, amount); ok is
   what the token does with it: it returns, or it fails and the call traps *)
token_transfer_from(fr, token, from, to, amount, ok) ==
    IF amount <= 0 THEN fr
    ELSE LET call == [kind |-> "xfer_from", token |-> token, from |-> from,
                      to |-> to, amount |-> amount, ok |-> ok]
             invoked == [fr EXCEPT !.ev = Append(@, call)]
         IN IF ok THEN invoked ELSE Trap(invoked)

---------------------------------------------------------------------------
(* The public functions, each from the storage st it is invoked on to the
   frame it ends with *)

set_default_payment_token(st, admin, token, auth) ==
    IF ~require_auth(auth, admin) THEN Trap(Frame(st))
    ELSE [Frame(st) EXCEPT !.st.DefaultPayToken = Some(token),
                           !.ev = Append(@, SetEvent("DefaultPayToken", 0, ""))]

get_default_payment_token(st) == st.DefaultPayToken

(* A variant of mint that accepts every royalty *)
mint_any_royalty(st, creator, initial_owner, royalty_bps, uri, auth) ==
    IF ~require_auth(auth, creator) THEN Trap(Frame(st))
    ELSE LET f0 == next_id(Frame(st))
         IN IF f0.res # "Ok" THEN f0
            ELSE LET id == f0.ret
                     f1 == set_owner(f0, id, initial_owner)
                     f2 == set_creator(f1, id, creator)
                     f3 == set_royalty_bps(f2, id, royalty_bps)
                 IN set_uri(f3, id, uri)

mint(st, creator, initial_owner, royalty_bps, uri, auth) ==
    IF ~require_auth(auth, creator) THEN Trap(Frame(st))
    ELSE IF royalty_bps > 10000 THEN Err(Frame(st), "InvalidRoyalty")
    ELSE LET f0 == next_id(Frame(st))
         IN IF f0.res # "Ok" THEN f0
            ELSE LET id == f0.ret
                     f1 == set_owner(f0, id, initial_owner)
                     f2 == set_creator(f1, id, creator)
                     f3 == set_royalty_bps(f2, id, royalty_bps)
                 IN set_uri(f3, id, uri)

(* Ok(NftInfo) as Some(record), Err(TokenNotFound) as None *)
get_info(st, id) ==
    IF get_owner(st, id) = None \/ get_creator(st, id) = None
       \/ get_royalty_bps(st, id) = None \/ get_uri(st, id) = None
    THEN None
    ELSE Some([token_id |-> id, owner |-> get_owner(st, id)[1],
               creator |-> get_creator(st, id)[1],
               royalty_bps |-> get_royalty_bps(st, id)[1],
               uri |-> get_uri(st, id)[1]])

(* A variant of transfer that does not compare from with the stored owner *)
transfer_any_signer(st, id, from, to, auth) ==
    LET owner == get_owner(st, id)
    IN IF owner = None THEN Err(Frame(st), "TokenNotFound")
       ELSE IF ~require_auth(auth, from) THEN Trap(Frame(st))
       ELSE IF from = to THEN Err(Frame(st), "SameOwner")
       ELSE set_owner(Frame(st), id, to)

(* A variant of transfer that requires the authorization first *)
transfer_auth_first(st, id, from, to, auth) ==
    LET owner == get_owner(st, id)
    IN IF ~require_auth(auth, from) THEN Trap(Frame(st))
       ELSE IF owner = None THEN Err(Frame(st), "TokenNotFound")
       ELSE IF owner[1] # from THEN Err(Frame(st), "NotOwner")
       ELSE IF from = to THEN Err(Frame(st), "SameOwner")
       ELSE set_owner(Frame(st), id, to)

transfer(st, id, from, to, auth) ==
    LET owner == get_owner(st, id)
    IN IF owner = None THEN Err(Frame(st), "TokenNotFound")
       ELSE IF owner[1] # from THEN Err(Frame(st), "NotOwner")
       ELSE IF ~require_auth(auth, from) THEN Trap(Frame(st))
       ELSE IF from = to THEN Err(Frame(st), "SameOwner")
       ELSE set_owner(Frame(st), id, to)

get_fan_points(st, fan) ==
    IF fan \in DOMAIN st.FanPoints THEN st.FanPoints[fan] ELSE 0

(* A variant of award_fan_points that stores the points instead of the sum *)
award_fan_points_overwrite(st, granter, fan, points, auth) ==
    IF ~require_auth(auth, granter) THEN Trap(Frame(st))
    ELSE [Frame(st) EXCEPT !.st.FanPoints = Put(@, fan, points),
                           !.ev = Append(@, SetEvent("FanPoints", 0, fan))]

award_fan_points(st, granter, fan, points, auth) ==
    IF ~require_auth(auth, granter) THEN Trap(Frame(st))
    ELSE LET got == Get(st.FanPoints, fan)
             current == IF got = None THEN 0 ELSE got[1]
             new_total == checked_add_u128(current, points)
         IN IF new_total = None THEN Err(Frame(st), "Overflow")
            ELSE [Frame(st) EXCEPT !.st.FanPoints = Put(@, fan, new_total[1]),
                                   !.ev = Append(@, SetEvent("FanPoints", 0, fan))]

(* A variant of settle that accrues the price to the seller *)
settle_seller_points(st, id, buyer, price, owner, creator, royalty_bps, pay_token, tok_ok) ==
    LET royalty == safe_mul_div(price, royalty_bps, 10000)
    IN IF royalty = None THEN Err(Frame(st), "Overflow")
       ELSE LET seller_amount == checked_sub_i128(price, royalty[1])
            IN IF seller_amount = None THEN Err(Frame(st), "Overflow")
               ELSE LET f1 == token_transfer_from(Frame(st), pay_token, buyer,
                                                  creator, royalty[1], tok_ok[1])
                    IN IF f1.res # "Ok" THEN f1
                       ELSE LET f2 == token_transfer_from(f1, pay_token, buyer, owner,
                                                          seller_amount[1], tok_ok[2])
                            IN IF f2.res # "Ok" THEN f2
                               ELSE LET f3 == set_owner(f2, id, buyer)
                                        points == IF price > 0 THEN price ELSE 0
                                    IN add_fan_points(f3, owner, points)

(* The part of buy after the payment token is resolved *)
settle(st, id, buyer, price, owner, creator, royalty_bps, pay_token, tok_ok) ==
    LET royalty == safe_mul_div(price, royalty_bps, 10000)
    IN IF royalty = None THEN Err(Frame(st), "Overflow")
       ELSE LET seller_amount == checked_sub_i128(price, royalty[1])
            IN IF seller_amount = None THEN Err(Frame(st), "Overflow")
               ELSE LET f1 == token_transfer_from(Frame(st), pay_token, buyer,
                                                  creator, royalty[1], tok_ok[1])
                    IN IF f1.res # "Ok" THEN f1
                       ELSE LET f2 == token_transfer_from(f1, pay_token, buyer, owner,
                                                          seller_amount[1], tok_ok[2])
                            IN IF f2.res # "Ok" THEN f2
                               ELSE LET f3 == set_owner(f2, id, buyer)
                                        points == IF price > 0 THEN price ELSE 0
                                    IN add_fan_points(f3, buyer, points)

(* A variant of buy that resolves the payment token before it looks the
   asset up *)
buy_token_first(st, id, buyer, price, payment_token, auth, tok_ok) ==
    IF ~require_auth(auth, buyer) THEN Trap(Frame(st))
    ELSE IF price <= 0 THEN Err(Frame(st), "InvalidPrice")
    ELSE LET owner == get_owner(st, id)
             creator == get_creator(st, id)
             royalty_bps == get_royalty_bps(st, id)
             pay_token == IF payment_token # None THEN payment_token
                          ELSE st.DefaultPayToken
         IN IF pay_token = None THEN Err(Frame(st), "InvalidPaymentToken")
            ELSE IF owner = None THEN Err(Frame(st), "TokenNotFound")
            ELSE IF owner[1] = buyer THEN Err(Frame(st), "SameOwner")
            ELSE IF creator = None THEN Err(Frame(st), "TokenNotFound")
            ELSE IF royalty_bps = None THEN Err(Frame(st), "TokenNotFound")
            ELSE settle(st, id, buyer, price, owner[1], creator[1],
                        royalty_bps[1], pay_token[1], tok_ok)

(* A variant of buy that prefers the default payment token to the override *)
buy_default_first(st, id, buyer, price, payment_token, auth, tok_ok) ==
    IF ~require_auth(auth, buyer) THEN Trap(Frame(st))
    ELSE IF price <= 0 THEN Err(Frame(st), "InvalidPrice")
    ELSE LET owner == get_owner(st, id)
             creator == get_creator(st, id)
             royalty_bps == get_royalty_bps(st, id)
             pay_token == IF st.DefaultPayToken # None THEN st.DefaultPayToken
                          ELSE payment_token
         IN IF owner = None THEN Err(Frame(st), "TokenNotFound")
            ELSE IF owner[1] = buyer THEN Err(Frame(st), "SameOwner")
            ELSE IF creator = None THEN Err(Frame(st), "TokenNotFound")
            ELSE IF royalty_bps = None THEN Err(Frame(st), "TokenNotFound")
            ELSE IF pay_token = None THEN Err(Frame(st), "InvalidPaymentToken")
            ELSE settle(st, id, buyer, price, owner[1], creator[1],
                        royalty_bps[1], pay_token[1], tok_ok)

buy(st, id, buyer, price, payment_token, auth, tok_ok) ==
    IF ~require_auth(auth, buyer) THEN Trap(Frame(st))
    ELSE IF price <= 0 THEN Err(Frame(st), "InvalidPrice")
    ELSE LET owner == get_owner(st, id)
             creator == get_creator(st, id)
             royalty_bps == get_royalty_bps(st, id)
             pay_token == IF payment_token # None THEN payment_token
                          ELSE st.DefaultPayToken
         IN IF owner = None THEN Err(Frame(st), "TokenNotFound")
            ELSE IF owner[1] = buyer THEN Err(Frame(st), "SameOwner")
            ELSE IF creator = None THEN Err(Frame(st), "TokenNotFound")
            ELSE IF royalty_bps = None THEN Err(Frame(st), "TokenNotFound")
            ELSE IF pay_token = None THEN Err(Frame(st), "InvalidPaymentToken")
            ELSE settle(st, id, buyer, price, owner[1], creator[1],
                        royalty_bps[1], pay_token[1], tok_ok)

---------------------------------------------------------------------------
(* The host: one invocation of an exported function *)

(* A variant of Committed: a host that keeps the writes of every invocation *)
Committed_always(fr) == TRUE

Committed(fr) == fr.res = "Ok"

(* The token transfers of a frame that were carried out *)
Transfers(ev) == SelectSeq(ev, LAMBDA e : e.kind = "xfer_from" /\ e.ok)

Idle ==
    [op |-> "idle", args |-> <<>>, auth |-> {}, res |-> "Ok", ret |-> 0,
     ev |-> <<>>, pre |-> EmptyStorage, paid |-> <<>>]

(* One invocation: the host runs the handler on the storage, keeps the
   frame's writes and transfers if it ends Ok and discards them otherwise *)
Invoke(op, args, auth, fr) ==
    /\ storage' = IF Committed(fr) THEN fr.st ELSE storage
    /\ payments' = IF Committed(fr) THEN payments \o Transfers(fr.ev) ELSE payments
    /\ calls' = IF Committed(fr) THEN calls + 1 ELSE calls
    /\ minted' = IF Committed(fr) /\ op = "mint" THEN Append(minted, fr.ret) ELSE minted
    /\ supplied' = IF Committed(fr) /\ op = "mint" THEN Put(supplied, fr.ret, args)
                   ELSE supplied
    /\ credited' = IF Committed(fr) /\ op = "award_fan_points"
                   THEN [credited EXCEPT ![args.fan] = @ + args.points]
                   ELSE IF Committed(fr) /\ op = "buy"
                   THEN [credited EXCEPT ![args.buyer] = @ + args.price]
                   ELSE credited
    /\ last' = [op |-> op, args |-> args, auth |-> auth, res |-> fr.res,
                ret |-> fr.ret, ev |-> fr.ev, pre |-> storage, paid |-> payments]

Init ==
    /\ storage = EmptyStorage
    /\ payments = <<>>
    /\ calls = 0
    /\ minted = <<>>
    /\ supplied = EmptyMap
    /\ credited = [a \in Addr |-> 0]
    /\ last = Idle

NextIdOf(st) == IF st.NextId = None THEN 0 ELSE st.NextId[1]

(* The host takes an invocation when none is running *)
Ready == last.op = "idle" /\ calls < MaxCalls

SetDefaultPaymentToken ==
    /\ Ready
    /\ \E admin \in Addr, token \in DefaultTokens, auth \in AuthSets :
        Invoke("set_default_payment_token", [admin |-> admin, token |-> token], auth,
               set_default_payment_token(storage, admin, token, auth))

Mint ==
    /\ Ready
    /\ NextIdOf(storage) < MaxMint
    /\ \E a \in MintInputs, auth \in AuthSets :
        Invoke("mint", a, auth,
               mint(storage, a.creator, a.initial_owner, a.royalty_bps, a.uri, auth))

Transfer ==
    /\ Ready
    /\ \E id \in TokenIds, from \in Addr, to \in Addr, auth \in AuthSets :
        Invoke("transfer", [id |-> id, from |-> from, to |-> to], auth,
               transfer(storage, id, from, to, auth))

AwardFanPoints ==
    /\ Ready
    /\ \E granter \in Addr, fan \in Addr, points \in Points, auth \in AuthSets :
        Invoke("award_fan_points", [granter |-> granter, fan |-> fan, points |-> points],
               auth, award_fan_points(storage, granter, fan, points, auth))

Buy ==
    /\ Ready
    /\ \E id \in TokenIds, buyer \in Addr, price \in Prices,
          payment_token \in {None} \cup {Some(t) : t \in OverrideTokens},
          auth \in AuthSets, tok_ok \in [1..2 -> BOOLEAN] :
        Invoke("buy", [id |-> id, buyer |-> buyer, price |-> price,
                       payment_token |-> payment_token], auth,
               buy(storage, id, buyer, price, payment_token, auth, tok_ok))

(* The result is handed back to the caller; the host takes the next invocation *)
Return ==
    /\ last.op # "idle"
    /\ last' = Idle
    /\ UNCHANGED <<storage, payments, calls, minted, supplied, credited>>

Next ==
    \/ SetDefaultPaymentToken
    \/ Mint
    \/ Transfer
    \/ AwardFanPoints
    \/ Buy
    \/ Return

Spec == Init /\ [][Next]_vars

(* The invocations the loyalty ledger takes part in: the awards, and the
   purchases of the assets minted *)
LedgerNext ==
    \/ Mint
    \/ AwardFanPoints
    \/ Buy
    \/ Return

LedgerSpec == Init /\ [][LedgerNext]_vars

---------------------------------------------------------------------------
(* What the properties below read off an invocation *)

RECURSIVE SumSeq(_)
SumSeq(seq) == IF seq = <<>> THEN 0 ELSE Head(seq) + SumSeq(Tail(seq))

(* The cross-contract calls of a frame, in order, failed ones included *)
XferEvents(ev) == SelectSeq(ev, LAMBDA e : e.kind = "xfer_from")

Amounts(xs) == [i \in 1..Len(xs) |-> xs[i].amount]

NonZero(seq) == SelectSeq(seq, LAMBDA n : n > 0)

BuyOk == last.op = "buy" /\ last.res = "Ok"

ErrorKinds ==
    {"NotAuthorized", "TokenNotFound", "InvalidRoyalty", "InvalidPrice",
     "InvalidPaymentToken", "Overflow", "NotOwner", "SameOwner", "PaymentFailed"}

---------------------------------------------------------------------------
(* C1: in every buy that succeeds, the amounts asked of the payment token
   are royalty = floor(price * royaltyBps / 10000), to the creator, and
   sellerAmount = price - royalty, and they add up to the price exactly
   (an amount of 0 is not asked for). *)
C1_RoyaltySplit ==
    BuyOk =>
        LET price == last.args.price
            bps == last.pre.RoyaltyBps[last.args.id]
            royalty == (price * bps) \div 10000
            asked == Amounts(XferEvents(last.ev))
        IN /\ price > 0
           /\ bps \in 0..10000
           /\ asked = NonZero(<<royalty, price - royalty>>)
           /\ SumSeq(asked) = price

(* A buy at 1019 of a 5% asset: 50 to the creator, 969 to the seller *)
C1_Witness ==
    /\ BuyOk
    /\ last.args.price = 1019
    /\ last.pre.RoyaltyBps[last.args.id] = 500
    /\ Amounts(XferEvents(last.ev)) = <<50, 969>>

(* C2: after a successful buy the stored owner of the asset is the buyer and
   the buyer's balance is its previous value plus the price; no other
   asset's owner and no other principal's balance entry changes; and in any
   buy, a storage write comes only after every transfer of the call has been
   made and has succeeded. *)
C2_BuyEffects ==
    last.op = "buy" =>
        LET id == last.args.id
            buyer == last.args.buyer
            ev == last.ev
        IN /\ \A i \in 1..Len(ev) : ev[i].kind = "set" =>
                  \A j \in 1..Len(ev) : ev[j].kind = "xfer_from" => (j < i /\ ev[j].ok)
           /\ last.res = "Ok" =>
                  /\ get_owner(storage, id) = Some(buyer)
                  /\ get_fan_points(storage, buyer)
                         = get_fan_points(last.pre, buyer) + last.args.price
                  /\ \A i \in TokenIds \ {id} :
                         get_owner(storage, i) = get_owner(last.pre, i)
                  /\ \A a \in Addr \ {buyer} :
                         Get(storage.FanPoints, a) = Get(last.pre.FanPoints, a)

(* B, holding 7 points, buys asset 1 at 1000 from A: two transfers, then the
   owner and the 1007 points *)
C2_Witness ==
    /\ BuyOk
    /\ last.args.price = 1000
    /\ get_fan_points(last.pre, last.args.buyer) = 7
    /\ get_fan_points(storage, last.args.buyer) = 1007
    /\ get_owner(storage, last.args.id) = Some(last.args.buyer)
    /\ Len(XferEvents(last.ev)) = 2

(* What a buy invocation was given, for the properties of buy *)
BuyAuthorized == last.args.buyer \in last.auth

BuyAssetMinted == last.args.id \in DOMAIN last.pre.Owner

BuyNoToken == last.args.payment_token = None /\ last.pre.DefaultPayToken = None

BuyChecksPass ==
    /\ BuyAuthorized
    /\ last.args.price > 0
    /\ BuyAssetMinted
    /\ last.pre.Owner[last.args.id] # last.args.buyer

FailedTransfer(ev) ==
    \E i \in 1..Len(ev) : ev[i].kind = "xfer_from" /\ ~ev[i].ok

(* C3: if one of the two transfers of a buy fails, buy fails with the error
   PaymentFailed, and the stored owner and the buyer's balance are as before
   the call. *)
C3_PaymentFailed ==
    (last.op = "buy" /\ FailedTransfer(last.ev)) =>
        /\ last.res = "PaymentFailed"
        /\ get_owner(storage, last.args.id) = get_owner(last.pre, last.args.id)
        /\ get_fan_points(storage, last.args.buyer)
               = get_fan_points(last.pre, last.args.buyer)

(* C4: whenever mint, transfer, buy or awardFanPoints ends with an error
   kind, the storage (NextId, every asset field, every FanPoints entry, the
   default payment token) and the payments carried out by the payment token
   are exactly as before the call. *)
C4_ErrorLeavesState ==
    (last.op \in {"mint", "transfer", "buy", "award_fan_points"}
         /\ last.res \in ErrorKinds) =>
        (storage = last.pre /\ payments = last.paid)

(* A buy that fails with Overflow in the loyalty accrual, after both
   transfers were made and the owner was written in the call *)
C4_Witness ==
    /\ last.op = "buy"
    /\ last.res = "Overflow"
    /\ Len(XferEvents(last.ev)) = 2
    /\ \E i \in 1..Len(last.ev) : last.ev[i].kind = "set" /\ last.ev[i].key = "Owner"
    /\ get_fan_points(last.pre, last.args.buyer) + last.args.price > U128_MAX

(* C5: buy reports the first failing check in the order authorization,
   price, asset existence, owner # buyer, payment token: InvalidPrice for a
   price <= 0 even if the asset does not exist, TokenNotFound for an unminted
   id and SameOwner for the owner buying even if no payment token is
   available, and InvalidPaymentToken only when all earlier checks pass. *)
C5_BuyCheckOrder ==
    last.op = "buy" =>
        /\ ~BuyAuthorized => last.res = "Trap"
        /\ (BuyAuthorized /\ last.args.price <= 0) => last.res = "InvalidPrice"
        /\ (BuyAuthorized /\ last.args.price > 0 /\ ~BuyAssetMinted)
               => last.res = "TokenNotFound"
        /\ (BuyAuthorized /\ last.args.price > 0 /\ BuyAssetMinted
                /\ last.pre.Owner[last.args.id] = last.args.buyer)
               => last.res = "SameOwner"
        /\ (last.res = "InvalidPaymentToken") <=> (BuyChecksPass /\ BuyNoToken)

(* The owner buying its own asset with no payment token available *)
C5_Witness ==
    /\ last.op = "buy"
    /\ BuyNoToken
    /\ BuyAssetMinted
    /\ last.pre.Owner[last.args.id] = last.args.buyer
    /\ last.res = "SameOwner"

(* C6, as stated, for the calls the buyer authorized: a buy with no
   override while no default payment token is set fails with
   InvalidPaymentToken and invokes no transfer; with an override, the
   override is the token of the transfers. *)
C6_Original ==
    (last.op = "buy" /\ BuyAuthorized) =>
        /\ BuyNoToken => (last.res = "InvalidPaymentToken" /\ XferEvents(last.ev) = <<>>)
        /\ last.args.payment_token # None =>
               \A i \in 1..Len(last.ev) : last.ev[i].kind = "xfer_from" =>
                   last.ev[i].token = last.args.payment_token[1]

(* C6, amended: a buy with no override while no default payment token is
   set fails and invokes no transfer; it fails with InvalidPaymentToken when
   the earlier checks pass (buyer authorized, price > 0, asset minted,
   owner # buyer) and with the earlier check's failure otherwise; with an
   override, the override is the token of every transfer, whether or not a
   default is set. *)
C6_TokenResolution ==
    last.op = "buy" =>
        /\ BuyNoToken => (last.res # "Ok" /\ XferEvents(last.ev) = <<>>)
        /\ (BuyNoToken /\ BuyChecksPass) => last.res = "InvalidPaymentToken"
        /\ (BuyNoToken /\ ~BuyChecksPass) =>
               last.res \in {"Trap", "InvalidPrice", "TokenNotFound", "SameOwner"}
        /\ last.args.payment_token # None =>
               \A i \in 1..Len(last.ev) : last.ev[i].kind = "xfer_from" =>
                   last.ev[i].token = last.args.payment_token[1]

(* An authorized buy of a minted asset by a principal that does not own it,
   with neither override nor default: InvalidPaymentToken, nothing invoked *)
C6_Witness ==
    /\ last.op = "buy"
    /\ BuyNoToken
    /\ BuyChecksPass
    /\ last.res = "InvalidPaymentToken"
    /\ last.ev = <<>>

(* The principal whose authorization the operation requires *)
NamedPrincipal ==
    CASE last.op = "mint" -> last.args.creator
      [] last.op = "transfer" -> last.args.from
      [] last.op = "buy" -> last.args.buyer
      [] last.op = "award_fan_points" -> last.args.granter
      [] last.op = "set_default_payment_token" -> last.args.admin

(* C7: when the named principal of a state-mutating operation (mint:
   creator; transfer: from, once from is the stored owner; buy: buyer;
   awardFanPoints: granter; setDefaultPaymentToken: admin) has not
   authorized the call, the call aborts and nothing of the state changes. *)
C7_AuthGate ==
    (/\ last.op # "idle"
     /\ NamedPrincipal \notin last.auth
     /\ last.op = "transfer" =>
            get_owner(last.pre, last.args.id) = Some(last.args.from))
        => (last.res = "Trap" /\ storage = last.pre /\ payments = last.paid)

(* A transfer by the stored owner that somebody else signed *)
C7_Witness ==
    /\ last.op = "transfer"
    /\ get_owner(last.pre, last.args.id) = Some(last.args.from)
    /\ last.args.from # last.args.to
    /\ last.auth = {last.args.to}
    /\ last.res = "Trap"

(* C8: transfer returns TokenNotFound for an unminted id; otherwise NotOwner
   when from is not the stored owner, whether or not from authorized the
   call; otherwise, from being authorized, SameOwner when from = to; the
   stored owner becomes to only when all checks pass and is unchanged
   otherwise. *)
C8_TransferOutcome ==
    last.op = "transfer" =>
        LET owner == get_owner(last.pre, last.args.id)
            from == last.args.from
            to == last.args.to
        IN /\ last.res = IF owner = None THEN "TokenNotFound"
                         ELSE IF owner[1] # from THEN "NotOwner"
                         ELSE IF from \notin last.auth THEN "Trap"
                         ELSE IF from = to THEN "SameOwner"
                         ELSE "Ok"
           /\ get_owner(storage, last.args.id)
                  = IF last.res = "Ok" THEN Some(to) ELSE owner

(* An unauthorized transfer by a principal that is not the owner *)
C8_Witness ==
    /\ last.op = "transfer"
    /\ last.auth = {}
    /\ get_owner(last.pre, last.args.id) # None
    /\ get_owner(last.pre, last.args.id) # Some(last.args.from)
    /\ last.res = "NotOwner"

(* C9: in every reachable state the ids with a stored Owner, Creator,
   RoyaltyBps or Uri entry are exactly 1..NextId, each with all four, and
   every id a mint has returned is among them. *)
C9_AssetIds ==
    LET ids == 1..NextIdOf(storage)
    IN /\ DOMAIN storage.Owner = ids
       /\ DOMAIN storage.Creator = ids
       /\ DOMAIN storage.RoyaltyBps = ids
       /\ DOMAIN storage.Uri = ids
       /\ \A i \in 1..Len(minted) : minted[i] \in ids
       /\ \A i \in ids : get_info(storage, i) # None

(* Two assets minted, then one of them bought *)
C9_Witness ==
    /\ BuyOk
    /\ NextIdOf(storage) = 2
    /\ DOMAIN storage.Uri = {1, 2}
    /\ minted = <<1, 2>>

(* C10: NextId starts at 0; a successful mint increases it by exactly 1 and
   returns the new value; no other operation and no failed mint changes it;
   so the n-th successful mint returns n and no two return the same id. *)
C10_Counter ==
    /\ NextIdOf(storage) = Len(minted)
    /\ \A i \in 1..Len(minted) : minted[i] = i
    /\ last.op # "idle" =>
           IF last.op = "mint" /\ last.res = "Ok"
           THEN /\ last.ret = NextIdOf(last.pre) + 1
                /\ storage.NextId = Some(last.ret)
           ELSE storage.NextId = last.pre.NextId

(* The second successful mint, after a transfer of the first asset *)
C10_Witness ==
    /\ last.op = "mint"
    /\ last.res = "Ok"
    /\ last.ret = 2
    /\ minted = <<1, 2>>
    /\ calls = 3
    /\ last.pre.Owner[1] # "A"

MintOk == last.op = "mint" /\ last.res = "Ok"

(* C11: right after a successful mint, getInfo of the returned id is the id
   with the four fields the mint was given; in every later state getInfo of
   a minted id has the creator, royaltyBps and uri its mint was given (the
   owner may differ); getInfo of an id no mint has returned is
   TokenNotFound. *)
C11_MintInfo ==
    /\ MintOk =>
           get_info(storage, last.ret)
               = Some([token_id |-> last.ret, owner |-> last.args.initial_owner,
                       creator |-> last.args.creator,
                       royalty_bps |-> last.args.royalty_bps,
                       uri |-> last.args.uri])
    /\ \A id \in DOMAIN supplied :
           /\ get_info(storage, id) # None
           /\ get_info(storage, id)[1].token_id = id
           /\ get_info(storage, id)[1].creator = supplied[id].creator
           /\ get_info(storage, id)[1].royalty_bps = supplied[id].royalty_bps
           /\ get_info(storage, id)[1].uri = supplied[id].uri
    /\ \A id \in (0..(MaxMint + 1)) \ DOMAIN supplied : get_info(storage, id) = None

(* Asset 1, minted by C to A at 5%, after a transfer and a purchase: owned
   by neither A nor its creator, the other fields as minted *)
C11_Witness ==
    /\ BuyOk
    /\ last.args.id = 1
    /\ supplied[1].initial_owner = "A"
    /\ last.pre.Owner[1] # "A"
    /\ get_info(storage, 1)[1].owner = "B"
    /\ get_info(storage, 1)[1].creator = "C"
    /\ get_info(storage, 1)[1].royalty_bps = 500
    /\ get_info(storage, 1)[1].uri = "ipfs://x"

MintAuthorized == last.args.creator \in last.auth

(* C12: a mint the creator authorized fails with InvalidRoyalty when
   royaltyBps > 10000 and leaves NextId as it was; it succeeds when
   royaltyBps is 0 or 10000; the stored royaltyBps of every minted asset is
   within 0..10000 in every reachable state. *)
C12_RoyaltyRange ==
    /\ (last.op = "mint" /\ MintAuthorized) =>
           /\ last.args.royalty_bps > 10000 =>
                  /\ last.res = "InvalidRoyalty"
                  /\ storage.NextId = last.pre.NextId
                  /\ DOMAIN storage.Owner = DOMAIN last.pre.Owner
           /\ last.args.royalty_bps \in {0, 10000} => last.res = "Ok"
    /\ \A id \in DOMAIN storage.RoyaltyBps : storage.RoyaltyBps[id] \in 0..10000

(* A mint at 10001 that its creator authorized, refused after a mint at
   10000 was accepted: the counter stays at 1 *)
C12_Witness ==
    /\ last.op = "mint"
    /\ MintAuthorized
    /\ last.args.royalty_bps = 10001
    /\ last.res = "InvalidRoyalty"
    /\ storage.NextId = Some(1)
    /\ storage.RoyaltyBps[1] = 10000

AwardAuthorized == last.args.granter \in last.auth

(* C13: an awardFanPoints call with points = 0 writes nothing: the fan's
   balance is as before the call and a fan without a FanPoints entry is
   still without one after it. *)
C13_ZeroAwardNoWrite ==
    (last.op = "award_fan_points" /\ last.args.points = 0) =>
        /\ get_fan_points(storage, last.args.fan)
               = get_fan_points(last.pre, last.args.fan)
        /\ Get(storage.FanPoints, last.args.fan)
               = Get(last.pre.FanPoints, last.args.fan)
        /\ \A i \in 1..Len(last.ev) : last.ev[i].kind # "set"

(* Two awards to one fan, one after the other, each authorized by its
   granter, from the storage st *)
AwardTwice(st, g1, a, g2, b, fan) ==
    LET f1 == award_fan_points(st, g1, fan, a, {g1})
    IN IF ~Committed(f1) THEN f1
       ELSE award_fan_points(f1.st, g2, fan, b, {g2})

(* C14: between invocations, whatever balance p a fan has, for all amounts
   a, b with p + a + b within the unsigned range and all granters, awarding
   a then b and awarding b then a both succeed and both leave the balance
   p + a + b; a principal that no successful award and no successful buy
   has credited has the balance 0. *)
C14_AwardOrder ==
    /\ last.op = "idle" =>
           \A fan \in Addr, g1 \in Addr, g2 \in Addr, a \in Points, b \in Points :
               LET p == get_fan_points(storage, fan)
                   ab == AwardTwice(storage, g1, a, g2, b, fan)
                   ba == AwardTwice(storage, g2, b, g1, a, fan)
               IN (a <= U128_MAX - p /\ b <= U128_MAX - p - a) =>
                      /\ ab.res = "Ok"
                      /\ ba.res = "Ok"
                      /\ get_fan_points(ab.st, fan) = p + a + b
                      /\ get_fan_points(ba.st, fan) = p + a + b
    /\ \A who \in Addr : credited[who] = 0 => get_fan_points(storage, who) = 0

(* An award of 7 after an award of 1 to the same fan, by another granter *)
C14_Witness ==
    /\ last.op = "award_fan_points"
    /\ last.res = "Ok"
    /\ last.args.points = 7
    /\ last.args.granter # last.args.fan
    /\ get_fan_points(last.pre, last.args.fan) = 1
    /\ get_fan_points(storage, last.args.fan) = 8
    /\ \E who \in Addr : who \notin DOMAIN storage.FanPoints

(* Whether the buy got as far as the owner write, which the loyalty accrual
   follows *)
BuyWroteOwner ==
    \E i \in 1..Len(last.ev) : last.ev[i].kind = "set" /\ last.ev[i].key = "Owner"

(* C15: no invocation, successful or failed, leaves a principal with a
   smaller balance than it had before, and every balance is within the
   unsigned range; an award, or the accrual of a buy, whose sum would exceed
   the range ends with Overflow and leaves the balance as it was. *)
C15_Additive ==
    /\ \A who \in Addr :
           /\ get_fan_points(storage, who) >= get_fan_points(last.pre, who)
           /\ get_fan_points(storage, who) \in 0..U128_MAX
    /\ (/\ last.op = "award_fan_points"
        /\ AwardAuthorized
        /\ last.args.points > U128_MAX - get_fan_points(last.pre, last.args.fan))
           => /\ last.res = "Overflow"
              /\ storage.FanPoints = last.pre.FanPoints
    /\ (/\ last.op = "buy"
        /\ BuyWroteOwner
        /\ last.args.price > U128_MAX - get_fan_points(last.pre, last.args.buyer))
           => /\ last.res = "Overflow"
              /\ storage.FanPoints = last.pre.FanPoints

(* An award of the largest amount to a fan that already holds 7 points *)
C15_Witness ==
    /\ last.op = "award_fan_points"
    /\ AwardAuthorized
    /\ last.args.points = U128_MAX
    /\ get_fan_points(last.pre, last.args.fan) = 7
    /\ last.res = "Overflow"
    /\ get_fan_points(storage, last.args.fan) = 7

(* A buy that passes its preconditions: the buyer authorized it, the price
   is positive, the asset is minted and owned by somebody else, and a
   payment token is available *)
BuyPreconditions == last.op = "buy" /\ BuyChecksPass /\ ~BuyNoToken

BuyBps == last.pre.RoyaltyBps[last.args.id]

(* The royalty as buy computes it *)
BuyRoyalty == safe_mul_div(last.args.price, BuyBps, 10000)

(* floor(a * b / c) for a, b >= 0 and c > 0, without forming a * b *)
WideMulDiv(a, b, c) == (a \div c) * b + ((a % c) * b) \div c

(* C16, as stated: in a buy that passes its preconditions and computes a
   royalty, the royalty is 0 only when royaltyBps is 0, and the royalty is
   less than the price, so that sellerAmount is never 0. *)
C16_Original ==
    (BuyPreconditions /\ BuyRoyalty # None) =>
        /\ BuyRoyalty[1] = 0 => BuyBps = 0
        /\ BuyRoyalty[1] < last.args.price
        /\ last.args.price - BuyRoyalty[1] # 0

(* C16, amended: a buy that passes its preconditions computes no royalty
   only when price * royaltyBps exceeds the signed range, and then fails
   with Overflow before any transfer; otherwise 0 <= royalty <= price, the
   royalty is 0 exactly when price * royaltyBps < 10000 (for royaltyBps 0,
   and for a positive royaltyBps at a small price), sellerAmount is 0
   exactly when royaltyBps is 10000, and a successful buy asks the payment
   token for exactly the non-zero ones of the two. *)
C16_ZeroAmounts ==
    BuyPreconditions =>
        IF BuyRoyalty = None
        THEN /\ BuyBps > 0
             /\ last.args.price > I128_MAX \div BuyBps
             /\ last.res = "Overflow"
             /\ last.ev = <<>>
        ELSE LET price == last.args.price
                 royalty == BuyRoyalty[1]
                 seller == price - royalty
             IN /\ 0 <= royalty /\ royalty <= price
                /\ (royalty = 0) <=> (price * BuyBps < 10000)
                /\ (seller = 0) <=> (BuyBps = 10000)
                /\ last.res = "Ok" =>
                       Amounts(XferEvents(last.ev)) = NonZero(<<royalty, seller>>)

(* A buy at 15 of a 5% asset: the royalty is 0, and the seller is paid 15 in
   the only transfer *)
C16_Witness ==
    /\ BuyOk
    /\ last.args.price = 15
    /\ BuyBps = 500
    /\ BuyRoyalty = Some(0)
    /\ Len(XferEvents(last.ev)) = 1
    /\ XferEvents(last.ev)[1].to = last.pre.Owner[last.args.id]
    /\ XferEvents(last.ev)[1].amount = 15

(* C17: every buy that passes its preconditions obtains the royalty
   floor(price * royaltyBps / 10000), whatever the price within the signed
   range, and does not fail with Overflow because of the multiplication (it
   ends with Overflow only when the buyer's balance plus the price exceeds
   the unsigned range). *)
C17_WidenedProduct ==
    BuyPreconditions =>
        /\ BuyRoyalty = Some(WideMulDiv(last.args.price, BuyBps, 10000))
        /\ last.res = "Overflow" =>
               last.args.price > U128_MAX - get_fan_points(last.pre, last.args.buyer)

(* The parties and the amount of the cross-contract calls, in order *)
Parties(xs) ==
    [i \in 1..Len(xs) |-> [from |-> xs[i].from, to |-> xs[i].to, amount |-> xs[i].amount]]

(* C18: a buy that passes its preconditions invokes the payment token first
   for (buyer, creator, royalty) and then for (buyer, owner before the call,
   sellerAmount), each if and only if its amount is greater than 0, the
   second not when the first failed; and the owner is written after both. *)
C18_TransferOrder ==
    BuyPreconditions =>
        LET price == last.args.price
            royalty == WideMulDiv(price, BuyBps, 10000)
            buyer == last.args.buyer
            first == [from |-> buyer, to |-> last.pre.Creator[last.args.id],
                      amount |-> royalty]
            second == [from |-> buyer, to |-> last.pre.Owner[last.args.id],
                       amount |-> price - royalty]
            xs == XferEvents(last.ev)
            one == IF royalty > 0 THEN <<first>> ELSE <<>>
            two == IF price - royalty > 0 THEN <<second>> ELSE <<>>
        IN /\ Parties(xs) = IF royalty > 0 /\ xs # <<>> /\ ~xs[1].ok THEN one
                            ELSE one \o two
           /\ \A i \in 1..Len(last.ev) :
                  (last.ev[i].kind = "set" /\ last.ev[i].key = "Owner") =>
                      \A j \in 1..Len(last.ev) : last.ev[j].kind = "xfer_from" => j < i

(* C19: the stored owner of a minted asset is changed only by a successful
   transfer of it that its owner authorized, to a different principal to,
   or by a successful buy of it that the buyer authorized, to the buyer,
   who was not the owner; every other invocation and every failed one
   leaves every owner as it was; a transfer invokes no payment token and
   changes no FanPoints balance. *)
C19_OwnerChanges ==
    /\ \A id \in DOMAIN last.pre.Owner :
           get_owner(storage, id) # Some(last.pre.Owner[id]) =>
               /\ last.res = "Ok"
               /\ last.args.id = id
               /\ \/ /\ last.op = "transfer"
                     /\ last.args.from = last.pre.Owner[id]
                     /\ last.args.from \in last.auth
                     /\ last.args.to # last.pre.Owner[id]
                     /\ get_owner(storage, id) = Some(last.args.to)
                  \/ /\ last.op = "buy"
                     /\ last.args.buyer \in last.auth
                     /\ last.args.buyer # last.pre.Owner[id]
                     /\ get_owner(storage, id) = Some(last.args.buyer)
    /\ last.op = "transfer" =>
           /\ XferEvents(last.ev) = <<>>
           /\ payments = last.paid
           /\ storage.FanPoints = last.pre.FanPoints

(* The buyer of an asset passes it on: the owner becomes to, the payments
   and the points the purchase left stay as they are *)
C19_Witness ==
    /\ last.op = "transfer"
    /\ last.res = "Ok"
    /\ get_owner(storage, last.args.id) = Some(last.args.to)
    /\ last.pre.Owner[last.args.id] = last.args.from
    /\ supplied[last.args.id].initial_owner # last.args.from
    /\ payments # <<>>
    /\ get_fan_points(storage, last.args.from) = 1000

(* C20: in every reachable state the balance of each principal is the sum
   of the points of the successful awards naming it as fan and of the
   prices of the successful buys it made; nothing else adds to it. *)
C20_Accounting ==
    \A who \in Addr : get_fan_points(storage, who) = credited[who]

(* B was awarded 7 points and then bought an asset at 1000 *)
C20_Witness ==
    /\ BuyOk
    /\ last.args.price = 1000
    /\ get_fan_points(last.pre, last.args.buyer) = 7
    /\ credited[last.args.buyer] = 1007
    /\ \E who \in Addr : credited[who] = 0

=============================================================================
